---- MODULE Spec2Model ----
(***************************************************************************)
(* Model of frontend/src/components/datasources/datasources.tsx: the data  *)
(* sources panel (Engine -> Database -> Schema -> TableList -> Table), its *)
(* lazy table-list and column fetches, the search-forced expansion, the    *)
(* two derived atoms (sortedTablesAtom, connectionsAtom) and the snippet   *)
(* generator of handleAddTable.                                            *)
(*                                                                         *)
(* React is modelled by its observable contract: component state lives     *)
(* from mount to unmount, an effect runs after the render that mounted the *)
(* component and after every render in which one of its dependencies       *)
(* changed, and an event handler together with the renders and effects it  *)
(* causes is one step.                                                     *)
(***************************************************************************)
EXTENDS Integers, Sequences, FiniteSets, TLC

\* ------------------------------------------------------------------ bounds
\* Requests that may be awaiting their response at the same time.
MaxOutstanding == 2
\* Parent re-renders counted while a table list's own request is pending.
MaxRerenders == 2
\* In-memory tables given to sortedTablesAtom.
MaxTables == 3
\* Connections in dataConnectionsMapAtom.
MaxConnections == 3
\* Cells that handleAddTable may insert.
MaxCells == 2

\* ---------------------------------------------------------------- strings
\* A string is a tuple of one-character strings.
LowerChar(c) == IF c = "A" THEN "a" ELSE IF c = "B" THEN "b" ELSE c

toLowerCase(s) == [i \in DOMAIN s |-> LowerChar(s[i])]

includes(hay, needle) ==
  \E i \in 0..(Len(hay) - Len(needle)) : SubSeq(hay, i + 1, i + Len(needle)) = needle

IsSpace(c) == c = " "

RECURSIVE trimStart(_)
trimStart(s) == IF s # <<>> /\ IsSpace(Head(s)) THEN trimStart(Tail(s)) ELSE s

RECURSIVE trimEnd(_)
trimEnd(s) ==
  IF s # <<>> /\ IsSpace(s[Len(s)]) THEN trimEnd(SubSeq(s, 1, Len(s) - 1)) ELSE s

trim(s) == trimEnd(trimStart(s))

\* JavaScript truthiness of a string.
Truthy(s) == s # <<>>

\* const hasSearch = !!searchValue.trim();
HasSearch(v) == Truthy(trim(v))

\* --------------------------------------------------------------- universe
\* One connection with two databases: db1 has one schema, for which the
\* backend has two tables; db2 has no schema.
Databases == {"db1", "db2"}

Schemas == {"main"}

DbOf(s) == "db1"

\* The TableList that DataSources renders for the in-memory tables: it is
\* given no sqlTableContext.
Python == "python"

TableLists == Schemas \cup {Python}

\* isSchemaless(schema.name): the sentinel name of a schema that is no level
\* of its own.
isSchemaless(s) == s = ""

\* sqlTableContext is passed by SchemaList only.
HasContext(l) == l \in Schemas

tA == <<"A">>
tb == <<"b">>
tdf == <<"d", "f">>

\* The tables the backend has for a schema, and the in-memory tables.
Catalog(l) == IF l = Python THEN {tdf} ELSE {tA, tb}

TableNodes == {n \in TableLists \X {tA, tb, tdf} : n[2] \in Catalog(n[1])}

SearchValues == {<<>>, <<" ">>, <<"a">>}

\* How a request ends: the transport rejects, the response carries no data,
\* or it carries a result (possibly an empty one).
TableListOutcomes == {"rejected", "nodata", "empty", "tables"}

TableOutcomes == {"rejected", "nodata", "nocolumns", "columns"}

\* Requests in flight for one key: sent by the instance now mounted (own),
\* or by an instance that has unmounted since (orphan).
NoFetch == [own |-> 0, orphan |-> 0]

Min(a, b) == IF a < b THEN a ELSE b

\* A function constructor is evaluated on demand, once per application;
\* comparing it makes it a table that is computed once.
Force(f) == CHOOSE g \in {f} : g = g

One(S) == CHOOSE x \in S : TRUE

\* ------------------------------------------------------------------ state
VARIABLES
  schemaName,             \* schema.name of each schema; never changes
  searchValue,            \* DataSources: useState("")
  closeAllColumns,        \* closeAllColumnsAtom, read by DatasetColumnItem
  dbExpanded,             \* DatabaseItem: isExpanded, per database
  schExpanded,            \* SchemaItem: isExpanded, per schema
  schemaTables,           \* shared state: the known tables of each list
  tableColumns,           \* shared state: number of known columns per table
  tableEntries,           \* shared state: entries of that name in its schema
  tablesRequested,        \* TableList: tablesRequested
  tablesLoading,          \* TableList: tablesLoading
  tlAsync,                \* TableList: status of useAsyncData
  tlFetch,                \* PreviewSQLTableList requests awaiting a response
  tlIssued,               \* requests issued by the mounted TableList instance
  tlRerenders,            \* parent re-renders while its request is pending
  tlDone,                 \* a request for this key has completed
  isExpanded,             \* DatasetTableItem: isExpanded
  tableDetailsRequested,  \* DatasetTableItem: tableDetailsRequested
  tblAsync,               \* DatasetTableItem: status of useAsyncData
  tblFetch,               \* PreviewSQLTable requests awaiting a response
  tblIssued,              \* requests issued by the mounted table item
  tblDone,                \* a request for this key has completed
  history,                \* whether tlDone and tblDone are recorded
  datasetTables,          \* datasetTablesAtom: the in-memory tables
  variables,              \* variablesAtom: variable name -> declaredBy
  cellIds,                \* cellIdsAtom: inOrderIds
  sortedTables,           \* value of sortedTablesAtom, once computed
  dataConnectionsMap,     \* dataConnectionsMapAtom, in insertion order
  connections,            \* value of connectionsAtom, once computed
  cells,                  \* code passed to addCodeToNewCell, in order
  lastCall                \* the last handleAddTable: its inputs and result

uiVars ==
  <<searchValue, closeAllColumns, dbExpanded, schExpanded, schemaTables,
    tableColumns, tableEntries,
    tablesRequested, tablesLoading, tlAsync, tlFetch, tlIssued,
    tlRerenders, tlDone, isExpanded, tableDetailsRequested, tblAsync,
    tblFetch, tblIssued, tblDone, history, schemaName>>

sortVars == <<datasetTables, variables, cellIds, sortedTables>>

connVars == <<dataConnectionsMap, connections>>

snippetVars == <<cells, lastCall>>

vars == <<uiVars, sortVars, connVars, snippetVars>>

\* The state as one record, so that a handler and the renders and effects
\* that follow it can be composed.
Now ==
  [search |-> searchValue, close |-> closeAllColumns, dbExp |-> dbExpanded, schExp |-> schExpanded,
   tabs |-> schemaTables, ncols |-> tableColumns,
   entries |-> tableEntries,
   tlReq |-> tablesRequested, tlLoad |-> tablesLoading, tlAsync |-> tlAsync,
   tlFetch |-> tlFetch, tlIssued |-> tlIssued,
   tlRer |-> tlRerenders, tlDone |-> tlDone,
   exp |-> isExpanded, req |-> tableDetailsRequested, async |-> tblAsync,
   fetch |-> tblFetch, issued |-> tblIssued,
   done |-> tblDone]

Becomes(st) ==
  /\ searchValue' = st.search
  /\ closeAllColumns' = st.close
  /\ dbExpanded' = st.dbExp
  /\ schExpanded' = st.schExp
  /\ schemaTables' = st.tabs
  /\ tableColumns' = st.ncols
  /\ tableEntries' = st.entries
  /\ tablesRequested' = st.tlReq
  /\ tablesLoading' = st.tlLoad
  /\ tlAsync' = st.tlAsync
  /\ tlFetch' = st.tlFetch
  /\ tlIssued' = st.tlIssued
  /\ tlRerenders' = st.tlRer
  /\ tlDone' = st.tlDone
  /\ isExpanded' = st.exp
  /\ tableDetailsRequested' = st.req
  /\ tblAsync' = st.async
  /\ tblFetch' = st.fetch
  /\ tblIssued' = st.issued
  /\ tblDone' = st.done
  /\ UNCHANGED <<history, schemaName, sortVars, connVars, snippetVars>>

\* --------------------------------------------------------------- mounting
\* TableList: tables.filter(...) on the search string.
TablePassesFilter(search, t) ==
  IF Truthy(search) THEN includes(toLowerCase(t), toLowerCase(search)) ELSE TRUE

\* Mutant: SchemaList does not filter the schemas.
SchemaPassesFilterAlways(search, tables) == TRUE

\* SchemaList: schemas.filter(...) on the search string.
SchemaPassesFilter(search, tables) ==
  IF Truthy(search) THEN \E t \in tables : TablePassesFilter(search, t) ELSE TRUE

\* A SchemaItem is rendered by SchemaList, which DatabaseItem renders as
\* {isExpanded && children}.
SchemaMounted(st, s) ==
  st.dbExp[DbOf(s)] /\ SchemaPassesFilter(st.search, st.tabs[s])

\* SchemaItem renders its TableList always when schemaless, else as
\* {isExpanded && children}; DataSources renders the in-memory TableList as
\* {tables.length > 0 && ...}.
TableListMounted(st, l) ==
  IF l = Python
    THEN st.tabs[l] # {}
    ELSE SchemaMounted(st, l) /\ (isSchemaless(schemaName[l]) \/ st.schExp[l])

\* TableList: if (isPending || tablesLoading) return <LoadingState/>
TableListLoading(st, l) ==
  TableListMounted(st, l) /\ (st.tlAsync[l] = "pending" \/ st.tlLoad[l])

\* TableList: if (error) return <ErrorState/>
TableListError(st, l) ==
  TableListMounted(st, l) /\ ~TableListLoading(st, l) /\ st.tlAsync[l] = "error"

\* TableList: if (tables.length === 0) return <EmptyState/>
TableListEmpty(st, l) ==
  /\ TableListMounted(st, l)
  /\ ~TableListLoading(st, l)
  /\ ~TableListError(st, l)
  /\ st.tabs[l] = {}

\* TableList maps the filtered tables to DatasetTableItem once it shows
\* neither LoadingState, ErrorState nor EmptyState.
TableItemMounted(st, n) ==
  /\ TableListMounted(st, n[1])
  /\ ~TableListLoading(st, n[1])
  /\ ~TableListError(st, n[1])
  /\ ~TableListEmpty(st, n[1])
  /\ n[2] \in st.tabs[n[1]]
  /\ TablePassesFilter(st.search, n[2])

\* renderColumns: if (isPending || isFetching) return <LoadingState/>
ColumnsLoading(st, n) == TableItemMounted(st, n) /\ st.async[n] = "pending"

\* renderColumns: if (error) return <ErrorState/>
ColumnsError(st, n) == TableItemMounted(st, n) /\ st.async[n] = "error"

\* ---------------------------------------------------------------- effects
\* useAsyncData reports its latest run of the loader: "pending" while that
\* run awaits, then how it ended. The end of an earlier run, or of a run of
\* a component that has unmounted, is not reported.
useAsyncDataSettled(async, mine, status) ==
  IF mine /\ async = "pending" THEN status ELSE async

\* Mutant: the gate does not read tablesRequested.
TableListGateNoFlag(n, ctx, req) == n = 0 /\ ctx

\* if (tables.length === 0 && sqlTableContext && !tablesRequested)
TableListGate(n, ctx, req) == n = 0 /\ ctx /\ ~req

\* Mutant: the loader sends the request without setTablesRequested(true).
RunTableListLoaderKeepsFlag(x) ==
  IF x.n = 0 /\ x.ctx /\ ~x.req
    THEN [x EXCEPT !.load = TRUE, !.async = "pending",
                   !.own = @ + 1, !.issued = @ + 1]
    ELSE [x EXCEPT !.async = "success"]

\* The loader of TableList up to its await: either it sets both flags and
\* sends the request, or it returns at once.
RunTableListLoader(x) ==
  IF TableListGate(x.n, x.ctx, x.req)
    THEN [x EXCEPT !.req = TRUE, !.load = TRUE, !.async = "pending",
                   !.own = @ + 1, !.issued = @ + 1]
    ELSE [x EXCEPT !.async = "success"]

\* useAsyncData(loader, [tables.length, sqlTableContext, tablesRequested]):
\* the run that set tablesRequested changes a dependency, so the loader runs
\* once more, and the hook then reports that later run.
TableListEffect(x) ==
  LET y == RunTableListLoader(x)
  IN IF y.req # x.req THEN RunTableListLoader(y) ELSE y

\* Mutant: the gate does not read tableDetailsRequested.
TableDetailsGateNoFlag(exp, exist, ctx, req) == exp /\ ~exist /\ ctx

\* if (isExpanded && !tableDetailsExist && sqlTableContext &&
\*     !tableDetailsRequested)
TableDetailsGate(exp, exist, ctx, req) == exp /\ ~exist /\ ctx /\ ~req

\* The loader of DatasetTableItem up to its await; its dependencies are
\* [isExpanded, tableDetailsExist], so setting tableDetailsRequested causes
\* no further run.
TableItemEffect(x) ==
  IF TableDetailsGate(x.exp, x.exist, x.ctx, x.req)
    THEN [x EXCEPT !.req = TRUE, !.async = "pending",
                   !.own = @ + 1, !.issued = @ + 1]
    ELSE [x EXCEPT !.async = "success"]

\* ------------------------------------------------- renders after a handler
\* SchemaItem: useState(false), then useEffect(() => setIsExpanded(hasSearch))
\* on mount; the flag dies with the component.
SchemaStage(o, p) ==
  [p EXCEPT !.schExp = Force(
     [s \in Schemas |->
        IF ~SchemaMounted(p, s) THEN FALSE
        ELSE IF ~SchemaMounted(o, s) THEN HasSearch(p.search)
        ELSE p.schExp[s]])]

TableListNode(st, l) ==
  [n |-> Cardinality(st.tabs[l]), ctx |-> HasContext(l),
   req |-> st.tlReq[l], load |-> st.tlLoad[l], async |-> st.tlAsync[l],
   own |-> st.tlFetch[l].own, orphan |-> st.tlFetch[l].orphan,
   issued |-> st.tlIssued[l], rer |-> st.tlRer[l]]

\* Mutant: unmounting aborts the requests the instance was waiting for.
TableListUnmountedCancels(st, l) ==
  [n |-> Cardinality(st.tabs[l]), ctx |-> HasContext(l),
   req |-> FALSE, load |-> FALSE, async |-> "pending",
   own |-> 0, orphan |-> st.tlFetch[l].orphan,
   issued |-> 0, rer |-> 0]

\* The state of a TableList that is not mounted, and of one just mounted:
\* the requests of an earlier instance stay in flight, no longer its own.
TableListUnmounted(st, l) ==
  [n |-> Cardinality(st.tabs[l]), ctx |-> HasContext(l),
   req |-> FALSE, load |-> FALSE, async |-> "pending",
   own |-> 0, orphan |-> st.tlFetch[l].own + st.tlFetch[l].orphan,
   issued |-> 0, rer |-> 0]

\* fresh: DataSources re-rendered, so SchemaList built a new sqlTableContext.
TableListDepsChanged(o, p, l, fresh) ==
  \/ Cardinality(p.tabs[l]) # Cardinality(o.tabs[l])
  \/ fresh /\ HasContext(l)
  \/ p.tlReq[l] # o.tlReq[l]

TableListRender(o, p, l, fresh) ==
  IF ~TableListMounted(p, l) THEN TableListUnmounted(p, l)
  ELSE IF ~TableListMounted(o, l) THEN TableListEffect(TableListUnmounted(p, l))
  ELSE LET x == TableListNode(p, l)
           y == IF TableListDepsChanged(o, p, l, fresh) THEN TableListEffect(x) ELSE x
       IN [y EXCEPT !.rer = IF y.own = 0 THEN 0
                             ELSE IF fresh /\ HasContext(l)
                               THEN Min(y.rer + 1, MaxRerenders)
                               ELSE y.rer]

TableListStage(o, p, fresh) ==
  One({[p EXCEPT
          !.tlReq = Force([l \in TableLists |-> r[l].req]),
          !.tlLoad = Force([l \in TableLists |-> r[l].load]),
          !.tlAsync = Force([l \in TableLists |-> r[l].async]),
          !.tlFetch = Force([l \in TableLists |-> [own |-> r[l].own, orphan |-> r[l].orphan]]),
          !.tlIssued = Force([l \in TableLists |-> r[l].issued]),
          !.tlRer = Force([l \in TableLists |-> r[l].rer])] :
       r \in {Force([l \in TableLists |-> TableListRender(o, p, l, fresh)])}})

TableItemNode(st, n) ==
  [exp |-> st.exp[n], exist |-> st.ncols[n] > 0, ctx |-> HasContext(n[1]),
   req |-> st.req[n], async |-> st.async[n],
   own |-> st.fetch[n].own, orphan |-> st.fetch[n].orphan,
   issued |-> st.issued[n]]

TableItemUnmounted(st, n) ==
  [exp |-> FALSE, exist |-> st.ncols[n] > 0, ctx |-> HasContext(n[1]),
   req |-> FALSE, async |-> "pending",
   own |-> 0, orphan |-> st.fetch[n].own + st.fetch[n].orphan,
   issued |-> 0]

\* useAsyncData(loader, [isExpanded, tableDetailsExist])
TableItemDepsChanged(o, p, n) ==
  \/ p.exp[n] # o.exp[n]
  \/ (p.ncols[n] > 0) # (o.ncols[n] > 0)

TableItemRender(o, p, n) ==
  IF ~TableItemMounted(p, n) THEN TableItemUnmounted(p, n)
  ELSE IF ~TableItemMounted(o, n) THEN TableItemEffect(TableItemUnmounted(p, n))
  ELSE IF TableItemDepsChanged(o, p, n) THEN TableItemEffect(TableItemNode(p, n))
  ELSE TableItemNode(p, n)

TableItemStage(o, p) ==
  One({[p EXCEPT
          !.exp = Force([n \in TableNodes |-> r[n].exp]),
          !.req = Force([n \in TableNodes |-> r[n].req]),
          !.async = Force([n \in TableNodes |-> r[n].async]),
          !.fetch = Force([n \in TableNodes |-> [own |-> r[n].own, orphan |-> r[n].orphan]]),
          !.issued = Force([n \in TableNodes |-> r[n].issued])] :
       r \in {Force([n \in TableNodes |-> TableItemRender(o, p, n)])}})

\* The renders and effects that follow a handler: o is the state before the
\* handler, p the state its own assignments leave.
Render(o, p, fresh) ==
  One({TableItemStage(o, p2) :
         p2 \in {TableListStage(o, p1, fresh) : p1 \in {SchemaStage(o, p)}}})

RECURSIVE SumOver(_, _)
SumOver(f, S) ==
  IF S = {} THEN 0
  ELSE LET x == CHOOSE y \in S : TRUE
       IN f[x].own + f[x].orphan + SumOver(f, S \ {x})

Outstanding(st) == SumOver(st.tlFetch, TableLists) + SumOver(st.fetch, TableNodes)

\* A handler's step: the renders follow in the same step, and the number of
\* requests in flight stays within the bound.
Step(p, fresh) ==
  \E o \in {Now} : \E p0 \in {p} : \E q \in {Render(o, p0, fresh)} :
     Outstanding(q) <= MaxOutstanding /\ Becomes(q)

\* ----------------------------------------------------------- shared state
\* addTableList({tables, sqlTableContext}): the tables of that schema are
\* replaced by the ones received, which carry no columns yet.
addTableList(st, l, tables) ==
  [st EXCEPT !.tabs[l] = tables,
             !.ncols = Force([n \in TableNodes |-> IF n[1] = l THEN 0 ELSE @[n]]),
             !.entries = Force([n \in TableNodes |->
                IF n[1] = l THEN (IF n[2] \in tables THEN 1 ELSE 0) ELSE @[n]])]

\* addTable({table, sqlTableContext}): the entry of that name is replaced by
\* the table received, or added when the schema has none of that name.
addTable(st, n, k) ==
  [st EXCEPT !.tabs[n[1]] = @ \cup {n[2]}, !.ncols[n] = k,
             !.entries[n] = IF @ = 0 THEN 1 ELSE @]

\* ------------------------------------------------------------------- Init
\* The panel as first rendered over the in-memory tables given: nothing
\* expanded, no search; a schema's tables are either not fetched yet or
\* already known; the in-memory list is rendered when there are in-memory
\* tables, and then it and its table items have run their effects.
PanelFirstRendered(inMemory) ==
  /\ searchValue = <<>>
  /\ closeAllColumns = FALSE
  /\ dbExpanded = [d \in Databases |-> FALSE]
  /\ schExpanded = [s \in Schemas |-> FALSE]
  /\ schemaTables \in {f \in [TableLists -> SUBSET {tA, tb, tdf}] :
                         /\ f[Python] = inMemory
                         /\ \A s \in Schemas : f[s] \in {{}, Catalog(s)}}
  /\ tableColumns = [n \in TableNodes |-> 0]
  /\ tableEntries = [n \in TableNodes |-> IF n[2] \in schemaTables[n[1]] THEN 1 ELSE 0]
  /\ tablesRequested = [l \in TableLists |-> FALSE]
  /\ tablesLoading = [l \in TableLists |-> FALSE]
  /\ tlAsync = [l \in TableLists |->
                  IF l = Python /\ inMemory # {} THEN "success" ELSE "pending"]
  /\ tlFetch = [l \in TableLists |-> NoFetch]
  /\ tlIssued = [l \in TableLists |-> 0]
  /\ tlRerenders = [l \in TableLists |-> 0]
  /\ tlDone = [l \in TableLists |-> FALSE]
  /\ isExpanded = [n \in TableNodes |-> FALSE]
  /\ tableDetailsRequested = [n \in TableNodes |-> FALSE]
  /\ tblAsync = [n \in TableNodes |->
                   IF n[1] = Python /\ n[2] \in inMemory THEN "success" ELSE "pending"]
  /\ tblFetch = [n \in TableNodes |-> NoFetch]
  /\ tblIssued = [n \in TableNodes |-> 0]
  /\ tblDone = [n \in TableNodes |-> FALSE]

\* The panel of a notebook that has in-memory tables.
InitPanel == PanelFirstRendered(Catalog(Python))

\* The atoms and the inserted cells before anything is computed or added.
NoCall == [called |-> FALSE]

\* A derived atom that has not been read yet.
NotRead == [read |-> FALSE, value |-> <<>>]

IdleSort ==
  /\ datasetTables = <<>>
  /\ variables = <<>>
  /\ cellIds = [inOrderIds |-> <<>>]
  /\ sortedTables = NotRead

IdleConnections ==
  /\ dataConnectionsMap = <<>>
  /\ connections = NotRead

IdleSnippets ==
  /\ cells = <<>>
  /\ lastCall = NoCall

\* The schema carries its own name.
NamedSchemas == schemaName = [s \in Schemas |-> s]

Init ==
  /\ InitPanel /\ history = FALSE /\ NamedSchemas
  /\ IdleSort /\ IdleConnections /\ IdleSnippets

\* ---------------------------------------------------------------- actions
\* DatabaseItem onSelect: setIsExpanded(!isExpanded)
ToggleDatabase(d) ==
  /\ d \in Databases
  /\ Step([Now EXCEPT !.dbExp[d] = ~@], FALSE)

\* SchemaItem onSelect: setIsExpanded(!isExpanded); a schemaless schema
\* renders no row to select.
ToggleSchema(s) ==
  /\ SchemaMounted(Now, s)
  /\ ~isSchemaless(schemaName[s])
  /\ Step([Now EXCEPT !.schExp[s] = ~@], FALSE)

\* DatasetTableItem onSelect: setIsExpanded(!isExpanded)
ToggleTable(n) ==
  /\ TableItemMounted(Now, n)
  /\ Step([Now EXCEPT !.exp[n] = ~@], FALSE)

\* Mutant: only DatabaseItem has the effect on [hasSearch].
SearchEffectDatabasesOnly(st, v) ==
  IF HasSearch(v) # HasSearch(st.search)
    THEN [st EXCEPT !.dbExp = Force([d \in Databases |-> HasSearch(v)])]
    ELSE st

\* The effects of DatabaseItem and SchemaItem on [hasSearch]:
\* setIsExpanded(hasSearch), run when hasSearch changed.
SearchEffect(st, v) ==
  IF HasSearch(v) # HasSearch(st.search)
    THEN [st EXCEPT !.dbExp = Force([d \in Databases |-> HasSearch(v)]),
                    !.schExp = Force([s \in Schemas |-> HasSearch(v)])]
    ELSE st

\* setSearchValue(v): DataSources renders with the new search string while
\* the nodes still hold their isExpanded, and the components that mount run
\* their loaders; then the effects on [hasSearch] set the flags, and the
\* nodes whose flag changed render again with the children they were given.
SearchStep(p, v) ==
  \E o \in {Now} : \E p0 \in {p} :
    \E q1 \in {Render(o, [p0 EXCEPT !.search = v], TRUE)} :
      \E p1 \in {[SearchEffect([q1 EXCEPT !.search = o.search], v)
                    EXCEPT !.search = v]} :
        \E q \in {Render(q1, p1, FALSE)} :
          Outstanding(q) <= MaxOutstanding /\ Becomes(q)

\* CommandInput onValueChange:
\* closeAllColumns(value.length > 0); setSearchValue(value)
SetSearch(v) ==
  /\ v # searchValue
  /\ SearchStep([Now EXCEPT !.close = Len(v) > 0], v)

\* The clear button, rendered as {hasSearch && ...}: setSearchValue("")
ClearSearch ==
  /\ HasSearch(searchValue)
  /\ SearchStep(Now, <<>>)

\* DataSources renders again because an atom it reads changed (variables,
\* cell ids, tables): every SchemaList builds a new sqlTableContext.
Rerender ==
  /\ UNCHANGED searchValue
  /\ Step(Now, TRUE)

\* Mutant: setTablesLoading(false) is missing after addTableList.
TableListContinuationStillLoading(st, l, mine, outcome) ==
  LET hook(x, status) ==
        [x EXCEPT !.tlAsync[l] = useAsyncDataSettled(@, mine, status)]
      loaded(x) == IF mine THEN [x EXCEPT !.tlLoad[l] = FALSE] ELSE x
  IN CASE outcome = "rejected" -> hook(st, "error")
       [] outcome = "nodata" -> hook(loaded(st), "error")
       [] outcome = "empty" -> hook(addTableList(st, l, {}), "success")
       [] outcome = "tables" -> hook(addTableList(st, l, Catalog(l)), "success")

\* The continuation of the TableList loader after
\* await PreviewSQLTableList.request(...). mine: the TableList that sent the
\* request is still mounted, so its state setters and its hook still act.
TableListContinuation(st, l, mine, outcome) ==
  LET hook(x, status) ==
        [x EXCEPT !.tlAsync[l] = useAsyncDataSettled(@, mine, status)]
      loaded(x) == IF mine THEN [x EXCEPT !.tlLoad[l] = FALSE] ELSE x
  IN CASE outcome = "rejected" -> hook(st, "error")
       [] outcome = "nodata" -> hook(loaded(st), "error")
       [] outcome = "empty" -> hook(loaded(addTableList(st, l, {})), "success")
       [] outcome = "tables" -> hook(loaded(addTableList(st, l, Catalog(l))), "success")

TableListResponse(l, mine, outcome) ==
  /\ IF mine THEN tlFetch[l].own > 0 ELSE tlFetch[l].orphan > 0
  /\ LET a == [Now EXCEPT !.tlFetch[l] =
                 IF mine THEN [@ EXCEPT !.own = @ - 1] ELSE [@ EXCEPT !.orphan = @ - 1],
                          !.tlDone[l] = @ \/ history]
     IN Step(TableListContinuation(a, l, mine, outcome),
             outcome \in {"empty", "tables"})

\* Mutant: the end of one item's run is reported to every item of the list.
TableContinuationSharedStatus(st, n, mine, outcome) ==
  LET hook(x, status) ==
        [x EXCEPT !.async = Force([k \in TableNodes |->
            IF k[1] = n[1] THEN useAsyncDataSettled(@[k], mine, status) ELSE @[k]])]
  IN CASE outcome = "rejected" -> hook(st, "error")
       [] outcome = "nodata" -> hook(st, "error")
       [] outcome = "nocolumns" -> hook(addTable(st, n, 0), "success")
       [] outcome = "columns" -> hook(addTable(st, n, 1), "success")

\* The continuation of the DatasetTableItem loader after
\* await PreviewSQLTable.request(...).
TableContinuation(st, n, mine, outcome) ==
  LET hook(x, status) ==
        [x EXCEPT !.async[n] = useAsyncDataSettled(@, mine, status)]
  IN CASE outcome = "rejected" -> hook(st, "error")
       [] outcome = "nodata" -> hook(st, "error")
       [] outcome = "nocolumns" -> hook(addTable(st, n, 0), "success")
       [] outcome = "columns" -> hook(addTable(st, n, 1), "success")

TableResponse(n, mine, outcome) ==
  /\ IF mine THEN tblFetch[n].own > 0 ELSE tblFetch[n].orphan > 0
  /\ LET a == [Now EXCEPT !.fetch[n] =
                 IF mine THEN [@ EXCEPT !.own = @ - 1] ELSE [@ EXCEPT !.orphan = @ - 1],
                          !.done[n] = @ \/ history]
     IN Step(TableContinuation(a, n, mine, outcome),
             outcome \in {"nocolumns", "columns"})

Next ==
  \/ \E d \in Databases : ToggleDatabase(d)
  \/ \E s \in Schemas : ToggleSchema(s)
  \/ \E n \in TableNodes : ToggleTable(n)
  \/ \E v \in SearchValues : SetSearch(v)
  \/ ClearSearch
  \/ Rerender
  \/ \E l \in Schemas, mine \in BOOLEAN, outcome \in TableListOutcomes :
       TableListResponse(l, mine, outcome)
  \/ \E n \in TableNodes, mine \in BOOLEAN, outcome \in TableOutcomes :
       TableResponse(n, mine, outcome)

Spec == Init /\ [][Next]_vars

\* The panel of a notebook without in-memory tables, with the completed
\* requests recorded per key.
InitHistory ==
  /\ PanelFirstRendered({}) /\ history = TRUE /\ NamedSchemas
  /\ IdleSort /\ IdleConnections /\ IdleSnippets

SpecHistory == InitHistory /\ [][Next]_vars

\* The same panel over a database whose schema is schemaless: its name is
\* the sentinel, it has no row of its own and its TableList is rendered
\* directly under the database.
InitSchemaless ==
  /\ InitPanel /\ history = FALSE
  /\ schemaName = [s \in Schemas |-> ""]
  /\ IdleSort /\ IdleConnections /\ IdleSnippets

\* The handlers of that panel: there is no schema row to select.
NextSchemaless ==
  \/ \E d \in Databases : ToggleDatabase(d)
  \/ \E n \in TableNodes : ToggleTable(n)
  \/ \E v \in SearchValues : SetSearch(v)
  \/ ClearSearch
  \/ Rerender
  \/ \E l \in Schemas, mine \in BOOLEAN, outcome \in TableListOutcomes :
       TableListResponse(l, mine, outcome)
  \/ \E n \in TableNodes, mine \in BOOLEAN, outcome \in TableOutcomes :
       TableResponse(n, mine, outcome)

SpecSchemaless == InitSchemaless /\ [][NextSchemaless]_vars

\* The panel at rest, for the computations that do not depend on it.
IdlePanel ==
  /\ InitPanel /\ history = FALSE /\ NamedSchemas
  /\ schemaTables = [l \in TableLists |-> Catalog(l)]

\* ------------------------------------------------------- sortedTablesAtom
\* lodash sortBy: a stable sort in ascending order of the key. keys[i] is
\* the key of the i-th element; the result lists the elements' positions.
InsertByKey(order, keys, j) ==
  LET pos == Cardinality({i \in 1..Len(order) : keys[order[i]] <= keys[j]})
  IN SubSeq(order, 1, pos) \o <<j>> \o SubSeq(order, pos + 1, Len(order))

RECURSIVE SortPositions(_, _)
SortPositions(keys, n) ==
  IF n = 0 THEN <<>> ELSE InsertByKey(SortPositions(keys, n - 1), keys, n)

sortBy(list, keys) ==
  LET order == SortPositions(keys, Len(list))
  IN [i \in 1..Len(list) |-> list[order[i]]]

\* Array.prototype.indexOf, 0-based, -1 when absent.
indexOf(list, e) ==
  IF \E i \in 1..Len(list) : list[i] = e
    THEN (CHOOSE i \in 1..Len(list) :
            list[i] = e /\ \A k \in 1..(i - 1) : list[k] # e) - 1
    ELSE -1

\* declaredBy[0]: undefined when the variable is declared by no cell.
NoCell == "undefined"

FirstDeclaredBy(variable) ==
  IF Len(variable.declaredBy) = 0 THEN NoCell ELSE variable.declaredBy[1]

\* Mutant: a table without a variable gets key 0 instead of -1.
TableSortKeyNoTop(table, vars0, ids) ==
  IF table.variable_name = "" THEN 0
  ELSE IF table.variable_name \notin DOMAIN vars0 THEN 0
  ELSE LET index == indexOf(ids.inOrderIds,
                            FirstDeclaredBy(vars0[table.variable_name]))
       IN IF index = -1 THEN 0 ELSE index

\* The iteratee given to sortBy.
TableSortKey(table, vars0, ids) ==
  IF table.variable_name = "" THEN -1
  ELSE IF table.variable_name \notin DOMAIN vars0 THEN 0
  ELSE LET index == indexOf(ids.inOrderIds,
                            FirstDeclaredBy(vars0[table.variable_name]))
       IN IF index = -1 THEN 0 ELSE index

sortedTablesAtom(tables, vars0, ids) ==
  sortBy(tables, [i \in 1..Len(tables) |-> TableSortKey(tables[i], vars0, ids)])

VariableNames == {"x", "y"}

CellIds == {"c1", "c2", "c3"}

CellOrders == {<<"c1", "c2", "c3">>, <<"c3", "c1">>}

\* A variable: its name and the cells that declare it.
Variables ==
  UNION {[D -> {[name |-> v, declaredBy |-> d] :
                  v \in D, d \in {<<>>} \cup {<<c>> : c \in CellIds}}] :
           D \in SUBSET VariableNames}

\* Tables are named by their position in datasetTablesAtom.
TableInputs ==
  UNION {{[i \in 1..n |-> [name |-> i, variable_name |-> f[i]]] :
            f \in [1..n -> {""} \cup VariableNames]} : n \in 0..MaxTables}

InitSort ==
  /\ IdlePanel /\ IdleConnections /\ IdleSnippets
  /\ datasetTables \in TableInputs
  /\ variables \in {v \in Variables : \A n \in DOMAIN v : v[n].name = n}
  /\ cellIds \in {[inOrderIds |-> o] : o \in CellOrders}
  /\ sortedTables = NotRead

\* A read of sortedTablesAtom.
ReadSortedTables ==
  /\ ~sortedTables.read
  /\ sortedTables' = [read |-> TRUE,
                      value |-> sortedTablesAtom(datasetTables, variables, cellIds)]
  /\ UNCHANGED <<datasetTables, variables, cellIds>>
  /\ UNCHANGED <<uiVars, connVars, snippetVars>>

SpecSort == InitSort /\ [][ReadSortedTables]_vars

\* -------------------------------------------------------- connectionsAtom
\* INTERNAL_SQL_ENGINES: the engines marimo itself provides.
INTERNAL_SQL_ENGINES == {"__marimo_duckdb", "__marimo_clickhouse"}

UserEngines == {"pg", "sqlite"}

\* A connection: its name and how many databases it has.
Connection(name, n) == [name |-> name, databases |-> n]

\* Mutant: every connection without databases is deleted.
DeleteEmptyAny(dataConnections) ==
  SelectSeq(dataConnections, LAMBDA c : c.databases # 0)

\* The loop over INTERNAL_SQL_ENGINES: an internal engine that is in the
\* map and has no databases is deleted from the copy.
DeleteEmptyInternal(dataConnections) ==
  SelectSeq(dataConnections,
            LAMBDA c : ~(c.name \in INTERNAL_SQL_ENGINES /\ c.databases = 0))

\* The iteratee given to sortBy.
ConnectionSortKey(connection) ==
  IF connection.name \in INTERNAL_SQL_ENGINES THEN 1 ELSE 0

\* The atom works on new Map(source): source is what the source map holds
\* once the atom has been read.
connectionsAtom(map) ==
  LET dataConnections == DeleteEmptyInternal(map)
  IN [value |-> sortBy(dataConnections,
                       [i \in 1..Len(dataConnections) |->
                          ConnectionSortKey(dataConnections[i])]),
      source |-> map]

\* Maps of at most MaxConnections connections, keyed by name.
ConnectionMaps ==
  UNION {{m \in [1..n -> {Connection(e, k) :
                            e \in INTERNAL_SQL_ENGINES \cup UserEngines,
                            k \in 0..1}] :
            \A i, j \in 1..n : i # j => m[i].name # m[j].name} :
           n \in 0..MaxConnections}

InitConnections ==
  /\ IdlePanel /\ IdleSort /\ IdleSnippets
  /\ dataConnectionsMap \in ConnectionMaps
  /\ connections = NotRead

\* A read of connectionsAtom.
ReadConnections ==
  /\ ~connections.read
  /\ LET r == connectionsAtom(dataConnectionsMap)
     IN /\ connections' = [read |-> TRUE, value |-> r.value]
        /\ dataConnectionsMap' = r.source
  /\ UNCHANGED <<uiVars, sortVars, snippetVars>>

SpecConnections == InitConnections /\ [][ReadConnections]_vars

\* --------------------------------------------------------- handleAddTable
\* sqlTableContext as DatasetTableItem receives it: undefined under the
\* in-memory list, else the context of the schema; only its database name
\* is read here, and "" is the name of a database that is not connected.
NoContext == [defined |-> FALSE, database |-> <<>>]

Contexts == {NoContext} \cup {[defined |-> TRUE, database |-> d] : d \in {<<>>, <<"d">>}}

RecognizedKinds == {"catalog", "local", "duckdb", "connection"}

\* "other" stands for a source_type outside the DataTable union.
SourceTypes == RecognizedKinds \cup {"other"}

Tables ==
  {[name |-> n, source_type |-> k, engine |-> <<"e">>] :
     n \in {<<"t">>, <<"d", "f">>}, k \in SourceTypes}

\* The code strings, kept as the call they spell.
\* `${table.engine}.load_table("${identifier}")`
load_table(engine, identifier) ==
  [fn |-> "load_table", engine |-> engine, arg |-> identifier, ctx |-> NoContext]

\* `mo.ui.table(${table.name})`
mo_ui_table(name) ==
  [fn |-> "mo.ui.table", engine |-> <<>>, arg |-> name, ctx |-> NoContext]

\* sqlCode({table, columnName: "*", sqlTableContext}): the select-all query
\* for that table under that context.
sqlCode(table, sqlTableContext) ==
  [fn |-> "sqlCode", engine |-> <<>>, arg |-> table.name, ctx |-> sqlTableContext]

\* ""
EmptyString == [fn |-> "", engine |-> <<>>, arg |-> <<>>, ctx |-> NoContext]

\* Mutant: the test on sqlTableContext comes before the test on "catalog".
getCodeContextFirst(table, sqlTableContext, logNeverThrows) ==
  IF sqlTableContext.defined
    THEN [raised |-> FALSE, code |-> sqlCode(table, sqlTableContext)]
  ELSE IF table.source_type = "catalog"
    THEN [raised |-> FALSE, code |-> load_table(table.engine, table.name)]
  ELSE CASE table.source_type = "local" ->
              [raised |-> FALSE, code |-> mo_ui_table(table.name)]
         [] table.source_type \in {"duckdb", "connection"} ->
              [raised |-> FALSE, code |-> sqlCode(table, sqlTableContext)]
         [] OTHER ->
              IF logNeverThrows
                THEN [raised |-> TRUE, code |-> EmptyString]
                ELSE [raised |-> FALSE, code |-> EmptyString]

\* getCode. sqlTableContext?.database is truthy when the context is defined
\* and its database name is not "". logNever is not part of this file:
\* logNeverThrows says whether it throws or returns.
getCode(table, sqlTableContext, logNeverThrows) ==
  IF table.source_type = "catalog"
    THEN LET identifier ==
               IF sqlTableContext.defined /\ Truthy(sqlTableContext.database)
                 THEN sqlTableContext.database \o <<".">> \o table.name
                 ELSE table.name
         IN [raised |-> FALSE, code |-> load_table(table.engine, identifier)]
  ELSE IF sqlTableContext.defined
    THEN [raised |-> FALSE, code |-> sqlCode(table, sqlTableContext)]
  ELSE CASE table.source_type = "local" ->
              [raised |-> FALSE, code |-> mo_ui_table(table.name)]
         [] table.source_type \in {"duckdb", "connection"} ->
              [raised |-> FALSE, code |-> sqlCode(table, sqlTableContext)]
         [] OTHER ->
              IF logNeverThrows
                THEN [raised |-> TRUE, code |-> EmptyString]
                ELSE [raised |-> FALSE, code |-> EmptyString]

\* handleAddTable: addCodeToNewCell(getCode()); when getCode throws,
\* addCodeToNewCell is not reached.
handleAddTable(table, sqlTableContext) ==
  /\ Len(cells) < MaxCells
  /\ \E logNeverThrows \in BOOLEAN :
       LET r == getCode(table, sqlTableContext, logNeverThrows)
       IN /\ cells' = IF r.raised THEN cells ELSE Append(cells, r.code)
          /\ lastCall' = [called |-> TRUE, table |-> table,
                          sqlTableContext |-> sqlTableContext,
                          raised |-> r.raised, code |-> r.code]
  /\ UNCHANGED <<uiVars, sortVars, connVars>>

InitSnippets == IdlePanel /\ IdleSort /\ IdleConnections /\ IdleSnippets

NextSnippets == \E table \in Tables, ctx \in Contexts : handleAddTable(table, ctx)

SpecSnippets == InitSnippets /\ [][NextSnippets]_vars

\* ================================================================= claims
HasSearchNow == HasSearch(searchValue)

ListOutstanding(l) == tlFetch[l].own + tlFetch[l].orphan

TableOutstanding(n) == tblFetch[n].own + tblFetch[n].orphan

\* C1 as stated: for every fetch key, at most one request is outstanding at
\* any time, and once a request for the key has completed no further request
\* for that key is issued, whatever is toggled, searched or completed.
C1_OncePerKey ==
  [][/\ \A l \in TableLists :
          /\ ListOutstanding(l)' <= 1
          /\ ~(tlDone'[l] /\ tlFetch'[l].own > tlFetch[l].own)
     /\ \A n \in TableNodes :
          /\ TableOutstanding(n)' <= 1
          /\ ~(tblDone'[n] /\ tblFetch'[n].own > tblFetch[n].own)]_vars

\* C1 as amended: for every mounted node instance (a TableList or a table
\* item, from its mount to its unmount), at most one request issued by that
\* instance is outstanding at any time, and once a request issued by it has
\* completed, that instance issues no further request.
C1_OncePerInstance ==
  [][/\ \A l \in TableLists :
          /\ tlFetch'[l].own <= 1
          /\ (tlIssued[l] > tlFetch[l].own => tlFetch'[l].own <= tlFetch[l].own)
     /\ \A n \in TableNodes :
          /\ tblFetch'[n].own <= 1
          /\ (tblIssued[n] > tblFetch[n].own => tblFetch'[n].own <= tblFetch[n].own)]_vars

\* A remounted TableList has its own request in flight while the request of
\* the instance before it is still in flight, and a request for that key has
\* completed before.
C1_Witness ==
  \E l \in TableLists :
    tlFetch[l].own = 1 /\ tlFetch[l].orphan = 1 /\ tlDone[l]

\* C2: a mounted TableList that has a sqlTableContext and an empty table
\* list has issued exactly one PreviewSQLTableList request, however often it
\* has rendered again since.
C2_ExactlyOneRequest ==
  \A l \in TableLists :
    (TableListMounted(Now, l) /\ HasContext(l) /\ schemaTables[l] = {})
      => tlIssued[l] = 1

\* The request is still pending after the TableList was rendered again twice
\* with a new sqlTableContext.
C2_Witness ==
  \E l \in TableLists :
    /\ TableListMounted(Now, l) /\ HasContext(l) /\ schemaTables[l] = {}
    /\ tlFetch[l].own = 1
    /\ tlRerenders[l] >= 2
    /\ tlIssued[l] = 1

\* C3 as stated: a table-list or column request that fails (the request
\* rejects, or resolves without data) takes the node that issued it out of
\* the loading state and into its error state, and changes neither the
\* loading nor the error state of any other node.
C3_FailureIsNodeLocalError ==
  [][/\ \A l \in Schemas, out \in {"rejected", "nodata"} :
          TableListResponse(l, TRUE, out) =>
            /\ ~TableListLoading(Now, l)'
            /\ TableListError(Now, l)'
            /\ \A k \in TableLists \ {l} :
                 /\ TableListLoading(Now, k)' = TableListLoading(Now, k)
                 /\ TableListError(Now, k)' = TableListError(Now, k)
            /\ \A n \in TableNodes :
                 /\ ColumnsLoading(Now, n)' = ColumnsLoading(Now, n)
                 /\ ColumnsError(Now, n)' = ColumnsError(Now, n)
     /\ \A n \in TableNodes, out \in {"rejected", "nodata"} :
          TableResponse(n, TRUE, out) =>
            /\ ~ColumnsLoading(Now, n)'
            /\ ColumnsError(Now, n)'
            /\ \A k \in TableLists :
                 /\ TableListLoading(Now, k)' = TableListLoading(Now, k)
                 /\ TableListError(Now, k)' = TableListError(Now, k)
            /\ \A m \in TableNodes \ {n} :
                 /\ ColumnsLoading(Now, m)' = ColumnsLoading(Now, m)
                 /\ ColumnsError(Now, m)' = ColumnsError(Now, m)]_vars

\* C4: when the request of a mounted TableList resolves with an empty table
\* array the node, as long as it is rendered, shows the empty state (not
\* loading, not error), and while its table list stays empty no later step
\* of that node issues a request.
C4_EmptyResultIsFinal ==
  [][\A l \in Schemas :
       /\ TableListResponse(l, TRUE, "empty") =>
            (TableListMounted(Now, l)' => TableListEmpty(Now, l)')
       /\ (/\ TableListEmpty(Now, l) /\ tlIssued[l] >= 1
           /\ TableListMounted(Now, l)' /\ schemaTables'[l] = {})
            => (tlIssued'[l] = tlIssued[l] /\ tlFetch'[l].own = 0)]_vars

\* A TableList whose one request has completed shows the empty state.
C4_Witness ==
  \E l \in Schemas :
    /\ TableListEmpty(Now, l)
    /\ tablesRequested[l] /\ tlIssued[l] = 1 /\ tlFetch[l].own = 0

AllExpandedAre(b) ==
  /\ \A d \in Databases : dbExpanded[d] = b
  /\ \A s \in Schemas : SchemaMounted(Now, s) => schExpanded[s] = b

\* C5 as stated: when hasSearch goes from false to true every mounted
\* database and schema node is expanded; when it goes back to false no
\* flag is forced to false, each keeps its value.
C5_SearchOffKeepsFlags ==
  [][/\ (~HasSearchNow /\ HasSearchNow') => AllExpandedAre(TRUE)'
     /\ (HasSearchNow /\ ~HasSearchNow') =>
          /\ dbExpanded' = dbExpanded
          /\ \A s \in Schemas :
               (SchemaMounted(Now, s) /\ SchemaMounted(Now, s)')
                 => schExpanded'[s] = schExpanded[s]]_vars

\* C5 as amended: whenever hasSearch changes, the expanded flag of every
\* mounted database and schema node is set to the new value of hasSearch:
\* true when the search starts, false when it is cleared.
C5_SearchSetsFlags ==
  [][/\ (~HasSearchNow /\ HasSearchNow') => AllExpandedAre(TRUE)'
     /\ (HasSearchNow /\ ~HasSearchNow') => AllExpandedAre(FALSE)']_vars

\* The search is active and has expanded every database and a mounted schema.
C5_Witness ==
  /\ HasSearchNow
  /\ AllExpandedAre(TRUE)
  /\ \E s \in Schemas : SchemaMounted(Now, s)

\* C6: a mounted table item issues a PreviewSQLTable request only in a step
\* that leaves it expanded, with no known columns and a sqlTableContext, and
\* in which it had not requested before; it issues at most one in its life.
C6_ColumnsRequestedOnce ==
  [][\A n \in TableNodes :
       /\ tblIssued'[n] <= 1
       /\ tblFetch'[n].own > tblFetch[n].own =>
            /\ isExpanded'[n]
            /\ tableColumns'[n] = 0
            /\ HasContext(n[1])
            /\ ~tableDetailsRequested[n]
            /\ tableDetailsRequested'[n]]_vars

\* A table item is expanded again after its one request has completed
\* without columns.
C6_Witness ==
  \E n \in TableNodes :
    /\ TableItemMounted(Now, n) /\ HasContext(n[1])
    /\ isExpanded[n] /\ tableColumns[n] = 0
    /\ tableDetailsRequested[n] /\ tblIssued[n] = 1 /\ tblFetch[n].own = 0
    /\ tblAsync[n] = "success"

\* C7: snippet generation for a table whose source kind is not catalog,
\* local, duckdb or connection raises and inserts nothing, with or without
\* a SQL table context. As stated it fails: with a context the select-all
\* snippet is returned and inserted before the kinds are looked at.
C7_UnknownKindRaises ==
  [][\A table \in Tables, ctx \in Contexts :
       (handleAddTable(table, ctx) /\ table.source_type \notin RecognizedKinds)
         => (lastCall'.raised /\ cells' = cells)]_vars

\* The key the sorted list is ordered by, as the claim gives it.
C8_HasVariable(table) == table.variable_name # ""

C8_CellPositions(table) ==
  IF table.variable_name \in DOMAIN variables
       /\ Len(variables[table.variable_name].declaredBy) > 0
    THEN {i \in 0..(Len(cellIds.inOrderIds) - 1) :
            cellIds.inOrderIds[i + 1] = variables[table.variable_name].declaredBy[1]}
    ELSE {}

C8_Key(table) ==
  IF ~C8_HasVariable(table) THEN -1
  ELSE IF C8_CellPositions(table) = {} THEN 0
  ELSE One(C8_CellPositions(table))

\* [A(var=x, cell 2), B(no var), C(var=y, cell 1)]
C8_Example ==
  /\ Len(datasetTables) = 3
  /\ [i \in 1..3 |-> datasetTables[i].variable_name] = <<"x", "", "y">>
  /\ C8_Key(datasetTables[1]) = 2
  /\ C8_Key(datasetTables[3]) = 1

\* C8: the sorted in-memory table list holds the tables of the input in
\* ascending order of the key (-1 without a variable; 0 when the variable
\* is unknown or its declaring cell is not in the cell order; else the index
\* of the declaring cell), tables of equal key in their input order; so
\* tables without a variable precede those with one, and the example list
\* [A, B, C] comes out as [B, C, A].
C8_StableSortByKey ==
  sortedTables.read =>
    LET out == sortedTables.value
        n == Len(out)
    IN /\ n = Len(datasetTables)
       /\ {out[i] : i \in 1..n} = {datasetTables[i] : i \in 1..n}
       /\ \A i, j \in 1..n :
            i < j => /\ C8_Key(out[i]) <= C8_Key(out[j])
                     /\ C8_Key(out[i]) = C8_Key(out[j]) => out[i].name < out[j].name
       /\ \A i, j \in 1..n :
            (~C8_HasVariable(out[i]) /\ C8_HasVariable(out[j])) => i < j
       /\ C8_Example => [i \in 1..n |-> out[i].name] = <<2, 3, 1>>

C8_Witness ==
  /\ sortedTables.read
  /\ C8_Example
  /\ sortedTables.value # datasetTables

C9_IsInternal(c) == c.name \in INTERNAL_SQL_ENGINES

C9_PositionIn(map, c) == CHOOSE k \in 1..Len(map) : map[k] = c

\* C9: a read of the visible connection list gives exactly the connections
\* of the map other than internal engines with zero databases, every
\* user-defined connection before every internal one, connections of the
\* same group in their order in the map; removing zero-database internal
\* engines from the result removes nothing; the map itself is unchanged.
C9_VisibleConnections ==
  [][connections'.read =>
       LET map == dataConnectionsMap
           out == connections'.value
           kept == {map[k] : k \in {k \in 1..Len(map) :
                      ~(C9_IsInternal(map[k]) /\ map[k].databases = 0)}}
       IN /\ {out[i] : i \in 1..Len(out)} = kept
          /\ Len(out) = Cardinality(kept)
          /\ \A i, j \in 1..Len(out) :
               i < j => /\ ~(C9_IsInternal(out[i]) /\ ~C9_IsInternal(out[j]))
                        /\ C9_IsInternal(out[i]) = C9_IsInternal(out[j])
                             => C9_PositionIn(map, out[i]) < C9_PositionIn(map, out[j])
          /\ DeleteEmptyInternal(out) = out
          /\ dataConnectionsMap' = map]_vars

C9_Witness ==
  /\ connections.read
  /\ \E i, j, k \in 1..Len(dataConnectionsMap) :
       /\ i < j
       /\ C9_IsInternal(dataConnectionsMap[i]) /\ dataConnectionsMap[i].databases > 0
       /\ ~C9_IsInternal(dataConnectionsMap[j]) /\ dataConnectionsMap[j].databases = 0
       /\ C9_IsInternal(dataConnectionsMap[k]) /\ dataConnectionsMap[k].databases = 0
  /\ Len(connections.value) = 2

\* The snippet in the order the claim gives; qualified: the identifier of a
\* catalog table is database.table.
C10_Snippet(table, ctx, qualified) ==
  IF table.source_type = "catalog"
    THEN load_table(table.engine,
                    IF qualified THEN ctx.database \o <<".">> \o table.name
                                 ELSE table.name)
  ELSE IF ctx.defined THEN sqlCode(table, ctx)
  ELSE IF table.source_type = "local" THEN mo_ui_table(table.name)
  ELSE sqlCode(table, NoContext)

\* The calls the order covers.
C10_Covered ==
  /\ lastCall.called
  /\ lastCall.table.source_type \in RecognizedKinds \/ lastCall.sqlTableContext.defined

C10_Inserted(code) ==
  /\ ~lastCall.raised
  /\ lastCall.code = code
  /\ Len(cells) > 0 /\ cells[Len(cells)] = code

\* C10 as stated: the identifier of a catalog table is database.table
\* whenever a SQL table context is present. It fails for the context of a
\* database that is not connected, whose name is "".
C10_QualifiedWithContext ==
  C10_Covered =>
    C10_Inserted(C10_Snippet(lastCall.table, lastCall.sqlTableContext,
                             lastCall.sqlTableContext.defined))

\* C10: the snippet is decided in this order: a catalog table gives the
\* load call, its identifier database.table when a SQL table context with a
\* non-empty database name is present and the bare table name otherwise;
\* else a table with a context gives the select-all query; else a local
\* table gives the tabular display of its name; else a duckdb or connection
\* table gives the select-all query.
C10_QualifiedWithDatabaseName ==
  C10_Covered =>
    C10_Inserted(C10_Snippet(lastCall.table, lastCall.sqlTableContext,
                             /\ lastCall.sqlTableContext.defined
                             /\ lastCall.sqlTableContext.database # <<>>))

C10_Witness ==
  /\ lastCall.called
  /\ lastCall.table.source_type = "catalog"
  /\ lastCall.table.name = <<"t">>
  /\ lastCall.sqlTableContext = [defined |-> TRUE, database |-> <<"d">>]
  /\ lastCall.code = load_table(<<"e">>, <<"d", ".", "t">>)
  /\ cells[Len(cells)] = lastCall.code

\* Two table items of one schema, both rendered and expanded, neither with
\* known columns.
C11_SiblingsExpanded(n, m) ==
  /\ n # m /\ n[1] = m[1] /\ HasContext(n[1])
  /\ isExpanded[n] /\ isExpanded[m]
  /\ tableColumns[n] = 0 /\ tableColumns[m] = 0
  /\ TableItemMounted(Now, n) /\ TableItemMounted(Now, m)

\* A step in which the response to the item's own request arrives: the
\* request leaves the awaited ones without becoming an orphan.
C11_OwnResponse(n) ==
  /\ tblFetch'[n].own = tblFetch[n].own - 1
  /\ tblFetch'[n].orphan = tblFetch[n].orphan

\* C11: two sibling table items without columns and with a sqlTableContext
\* that are both expanded have each issued their own PreviewSQLTable request,
\* each behind its own tableDetailsRequested flag; a response to one of
\* them, with or without data, leaves the other's request, its requested
\* flag and its loading and error display as they were.
C11_SiblingsFetchIndependently ==
  [][\A n, m \in TableNodes :
       /\ C11_SiblingsExpanded(n, m)' =>
            /\ tblIssued'[n] = 1 /\ tableDetailsRequested'[n]
            /\ tblIssued'[m] = 1 /\ tableDetailsRequested'[m]
       /\ (/\ C11_SiblingsExpanded(n, m)
           /\ tblFetch[n].own > 0 /\ tblFetch[m].own > 0
           /\ C11_OwnResponse(n))
            => /\ tblFetch'[m] = tblFetch[m]
               /\ tblIssued'[m] = tblIssued[m]
               /\ tableDetailsRequested'[m] = tableDetailsRequested[m]
               /\ tblAsync'[m] = tblAsync[m]
               /\ ColumnsLoading(Now, m)' = ColumnsLoading(Now, m)
               /\ ColumnsError(Now, m)' = ColumnsError(Now, m)]_vars

\* One sibling's request has been answered while the other's is still
\* awaited.
C11_Witness ==
  \E n, m \in TableNodes :
    /\ C11_SiblingsExpanded(n, m)
    /\ tblFetch[n].own = 0 /\ tblIssued[n] = 1 /\ tblAsync[n] # "pending"
    /\ tblFetch[m].own = 1 /\ ColumnsLoading(Now, m)

\* A step of a handler that can unmount nodes or change the search: the
\* search string changes, or the flag of a database, or the flag of a schema
\* that is rendered before and after (which no response changes).
C12_CollapseOrSearch ==
  \/ searchValue' # searchValue
  \/ dbExpanded' # dbExpanded
  \/ \E s \in Schemas :
       /\ schExpanded'[s] # schExpanded[s]
       /\ SchemaMounted(Now, s) /\ SchemaMounted(Now, s)'

\* C12: a request in flight is not cancelled when its node unmounts or the
\* search changes: such a step takes no request out of flight. When the
\* response to a request whose node has gone arrives with data, the data is
\* merged for the same schema or table all the same; and whichever instance
\* a merge comes from, the schema holds one entry per table name.
C12_LateResponseStillMerged ==
  [][/\ C12_CollapseOrSearch =>
          /\ \A l \in TableLists : ListOutstanding(l)' >= ListOutstanding(l)
          /\ \A n \in TableNodes : TableOutstanding(n)' >= TableOutstanding(n)
     /\ \A l \in Schemas :
          (/\ tlFetch'[l].orphan < tlFetch[l].orphan
           /\ TableListResponse(l, FALSE, "tables"))
            => /\ schemaTables'[l] = Catalog(l)
               /\ tlFetch'[l].orphan = tlFetch[l].orphan - 1
     /\ \A n \in TableNodes :
          (/\ tblFetch'[n].orphan < tblFetch[n].orphan
           /\ TableResponse(n, FALSE, "columns"))
            => /\ n[2] \in schemaTables'[n[1]]
               /\ tableColumns'[n] = 1
     /\ \A n \in TableNodes :
          /\ tableEntries'[n] <= 1
          /\ tableEntries'[n] = 1 <=> n[2] \in schemaTables'[n[1]]]_vars

\* A new TableList instance is still waiting for its own request, and the
\* tables are already there: they came with the response to a request of
\* the instance that was unmounted.
C12_Witness ==
  \E l \in Schemas :
    /\ TableListMounted(Now, l)
    /\ tlFetch[l] = [own |-> 1, orphan |-> 0]
    /\ schemaTables[l] = Catalog(l)
    /\ \A n \in TableNodes : n[1] = l => tableEntries[n] = 1

\* A step that changes the search string and sends a PreviewSQLTableList
\* request for the list: no response arrives in such a step, so a request
\* more in flight is a request sent.
C13_SearchCausesFetch(l) ==
  /\ searchValue' # searchValue
  /\ ListOutstanding(l)' > ListOutstanding(l)

\* While the search string is not empty no TableList with a sqlTableContext
\* and an empty table list is mounted, and the in-memory list sends nothing.
C13_NoEmptyListUnderSearch ==
  /\ searchValue # <<>> =>
       \A l \in Schemas : ~(schemaTables[l] = {} /\ TableListMounted(Now, l))
  /\ tlIssued[Python] = 0 /\ ListOutstanding(Python) = 0

\* C13 as stated: no change of the search string sends a table-list
\* request. It fails when the string is emptied over an expanded database
\* with a schemaless schema that has no known tables: the schema is no
\* longer filtered out and its TableList mounts and sends the request.
C13_SearchNeverFetches ==
  [][/\ \A l \in TableLists : ~C13_SearchCausesFetch(l)
     /\ C13_NoEmptyListUnderSearch']_vars

\* C13: a change of the search string to a non-empty string sends no
\* table-list request, and so neither does the expansion the search forces;
\* while the string is not empty no TableList with a sqlTableContext and an
\* empty table list is mounted; the in-memory list never sends one. A
\* change of the search string sends a request only when the string becomes
\* empty, for a schemaless schema without known tables.
C13_NonEmptySearchNeverFetches ==
  [][/\ \A l \in TableLists :
          C13_SearchCausesFetch(l) =>
            /\ searchValue' = <<>>
            /\ l \in Schemas /\ isSchemaless(schemaName[l])
            /\ schemaTables[l] = {}
     /\ (searchValue' # searchValue /\ ~HasSearchNow /\ HasSearchNow') =>
          /\ AllExpandedAre(TRUE)'
          /\ \A l \in TableLists : ListOutstanding(l)' <= ListOutstanding(l)
     /\ C13_NoEmptyListUnderSearch']_vars

\* The search has expanded the database, the schema without known tables is
\* filtered out, and nothing has been requested.
C13_Witness ==
  /\ HasSearchNow
  /\ \E l \in Schemas :
       /\ dbExpanded[DbOf(l)]
       /\ schemaTables[l] = {}
       /\ ~SchemaMounted(Now, l)
       /\ tlIssued[l] = 0 /\ ListOutstanding(l) = 0

====
